---- MODULE Spec2Model ----
(***************************************************************************)
(* Model of the 3GPP TDoc retrieval scripts ftp_agenda.py and ftp.py:      *)
(* the folder-name sanitizer, the FTP connection handling, the directory   *)
(* navigator, the retrying transfer, the manifest index and the archive    *)
(* distribution.                                                           *)
(*                                                                         *)
(* Text is modelled as a sequence of one-character strings, so that the    *)
(* string operations of the source (regular-expression substitution,       *)
(* strip, slicing, splitext, dirname, join) are computed character by      *)
(* character.                                                              *)
(***************************************************************************)
EXTENDS Integers, Sequences, FiniteSets, TLC

VARIABLES
    \* sanitize_folder_name called on its own
    san_variant,    \* which script's sanitize_folder_name is called
    san_label,      \* its folder_name argument
    san_max,        \* its max_length argument (ftp_agenda.py only)
    san_out,        \* its return value
    san_called,     \* whether the call has returned
    \* the run's surroundings
    variant,        \* which script runs: ftp_agenda.py or ftp.py
    manifest,       \* rows of the active sheet of the TDoc_List workbook
    unmakable,      \* folder names for which os.makedirs raises OSError
    \* control
    pc,             \* position in download_ftp_folder and its callees
    ret,            \* where refresh_connection / ftp_connect returns to
    crashWhy,       \* the call whose exception ended the process
    \* sessions
    ftp,            \* the session handle the caller holds (0: none)
    nextSid,        \* number of sessions opened so far
    openS,          \* sessions whose socket is open on this side
    dropped,        \* open sessions the host has dropped
    sessCwd,        \* working directory of every open session
    drops,          \* number of drops so far
    connAttempt,    \* attempt of ftp_connect's loop
    connLocal,      \* session bound to ftp_connect's local ftp (0: none)
    connTried,      \* attempts made by the current ftp_connect call
    peakOpen,       \* largest number of sessions open at once
    \* navigator
    current_dir, directories, navSteps, remote_dir,
    \* transfers
    files,          \* ftp.nlst() of the selected directory
    fileIdx,        \* position of the archive loop in files
    excel_file,     \* the manifest's file name (<<>>: None)
    dlFile,         \* remote_file of the current download
    dlAttempt,      \* attempt of download_file's loop
    dlCaller,       \* "excel" or "zip": the call site of download_file
    dlLog,          \* outcome of every attempt of the current download
    fetchResult,    \* file name -> outcome of its download
    \* index
    tdoc_type_map, type_folders,
    header_row,     \* index of the header row found (0: none)
    builds,         \* number of times the index was built
    \* local file system, relative to local_dir
    dirs,           \* folders under local_dir
    rootFiles,      \* files in local_dir
    partialFiles,   \* those of them left incomplete by a failed transfer
    folderFiles,    \* <<folder, file>>: file moved into folder
    extracted,      \* <<folder, file>>: file extracted into folder
    \* record of the session's use
    fresh,          \* the last session event was a successful liveness check
    lastOp,         \* the last command on the session and whether it was fresh
    distResult,     \* file name -> how its distribution ended
    lastChoice,     \* the operator's last input and the ftp.cwd it led to
    faults,         \* a network or filesystem call has failed in this run
    \* the document summarizer (analysis/report.py)
    folder,         \* os.listdir(input_folder), with what each entry holds
    docx_files,     \* the names process_documents iterates over
    doc_index,      \* position of its loop in docx_files
    doc_text,       \* text read from the current document
    summaries,      \* self.summaries
    doc_pc,         \* position in process_documents
    cross_document_analysis,    \* the attribute of that name
    discussion_points,          \* self.discussion_points
    backup_written, \* a backup file has been written under backups/
    report,         \* document_analysis_report.html (<<>>: no such file)
    doc_trace       \* the steps run after the loop and how each ended

sanVars == <<san_variant, san_label, san_max, san_out, san_called>>
envVars == <<variant, manifest, unmakable>>
ctlVars == <<pc, ret, crashWhy>>
connVars == <<ftp, nextSid, openS, dropped, sessCwd, drops, connAttempt,
              connLocal, connTried, peakOpen>>
navVars == <<current_dir, directories, navSteps, remote_dir>>
xferVars == <<files, fileIdx, excel_file, dlFile, dlAttempt, dlCaller, dlLog,
              fetchResult>>
idxVars == <<tdoc_type_map, type_folders, header_row, builds>>
fsVars == <<dirs, rootFiles, partialFiles, folderFiles, extracted>>
histVars == <<fresh, lastOp, distResult, lastChoice, faults>>

runVars == <<envVars, ctlVars, connVars, navVars, xferVars, idxVars, fsVars,
             histVars>>

tailVars == <<cross_document_analysis, discussion_points, backup_written,
              report, doc_trace>>
docVars == <<folder, docx_files, doc_index, doc_text, summaries, doc_pc,
             tailVars>>

\* what a run of the retrieval scripts never touches
offVars == <<sanVars, docVars>>

vars == <<sanVars, runVars, docVars>>

----------------------------------------------------------------------------
(* Bounds of the model *)

\* longest label, counted in tokens (a character or a run of characters)
MaxTokens == 3
\* max_length arguments tried besides the default: 0 .. SmallMaxLength
SmallMaxLength == 9
\* longest manifest, in rows, of the index specification
MaxRows == 3
\* sessions one run may open
MaxSessions == 3
\* times the host drops the session in one run
MaxDrops == 1
\* operator choices other than "download here" in one run
MaxNavSteps == 2

----------------------------------------------------------------------------
(* Text helpers *)

Agenda == "ftp_agenda.py"
Plain == "ftp.py"
Variants == {Agenda, Plain}

Min(a, b) == IF a < b THEN a ELSE b
Max(a, b) == IF a > b THEN a ELSE b

\* s[:n] of Python: a negative n counts from the end
PySliceTo(s, n) ==
    IF n >= 0 THEN SubSeq(s, 1, Min(n, Len(s)))
    ELSE SubSeq(s, 1, Max(Len(s) + n, 0))

\* s[n:] of Python, n >= 0
PySliceFrom(s, n) == SubSeq(s, Min(n, Len(s)) + 1, Len(s))

\* the character class [\\/*?:"<>|]
IllegalChars == {"\\", "/", "*", "?", ":", "\"", "<", ">", "|"}

\* the characters \s matches and str.strip() removes
WhitespaceChars == {" ", "\t", "\n", "\r", "\f"}

HexDigits == <<"0", "1", "2", "3", "4", "5", "6", "7",
               "8", "9", "a", "b", "c", "d", "e", "f">>

HexChars == {HexDigits[i] : i \in 1..16}

\* the characters the model's texts are written with, in code order
CharTable ==
    <<"\t", "\n", "\f", "\r", " ", "\"", "*", ",", "-", ".", "/", "0", "1",
      "2", "3", "4", "5", "6", "7", "8", "9", ":", "<", ">", "?", "A", "B",
      "C", "D", "E", "F", "G", "H", "I", "J", "K", "L", "M", "N", "O", "P",
      "Q", "R", "S", "T", "U", "V", "W", "X", "Y", "Z", "\\", "_", "a",
      "b", "c", "d", "e", "f", "g", "h", "i", "j", "k", "l", "m", "n", "o",
      "p", "q", "r", "s", "t", "u", "v", "w", "x", "y", "z", "|">>

CharCode(c) == CHOOSE i \in 1..Len(CharTable) : CharTable[i] = c

\* a character class that misses the question mark
RemoveIllegal_noQuestionMark(s) ==
    SelectSeq(s, LAMBDA c : c \notin (IllegalChars \ {"?"}))

\* re.sub(r'[\\/*?:"<>|]', '', s)
RemoveIllegal(s) == SelectSeq(s, LAMBDA c : c \notin IllegalChars)

\* s.replace('\n', ' ').replace(',', ' ')
ReplaceNewlineComma(s) ==
    [i \in 1..Len(s) |-> IF s[i] = "\n" \/ s[i] = "," THEN " " ELSE s[i]]

\* re.sub(r'\s+', ' ', s): every maximal run of whitespace becomes one space
\* (a whitespace character is dropped when the one before it is whitespace)
CollapseWhitespace(s) ==
    LET marked == [i \in 1..Len(s) |->
                     [ch |-> IF s[i] \in WhitespaceChars THEN " " ELSE s[i],
                      drop |-> /\ i > 1
                               /\ s[i] \in WhitespaceChars
                               /\ s[i - 1] \in WhitespaceChars]]
        kept == SelectSeq(marked, LAMBDA m : ~m.drop)
    IN  [i \in 1..Len(kept) |-> kept[i].ch]

\* s.strip()
Strip(s) ==
    LET keep == {i \in 1..Len(s) : s[i] \notin WhitespaceChars}
    IN  IF keep = {} THEN <<>>
        ELSE SubSeq(s, CHOOSE i \in keep : \A j \in keep : i <= j,
                       CHOOSE i \in keep : \A j \in keep : i >= j)

\* lines 11-14 of ftp_agenda.py, 8-11 of ftp.py: the name before truncation
CleanName(folder_name) ==
    Strip(CollapseWhitespace(ReplaceNewlineComma(RemoveIllegal(folder_name))))

\* length of the hash suffix, hexdigest()[:8]
HashLen == 8
\* the default of max_length
DefaultMaxLength == 50

\* hashlib.md5(s.encode()).hexdigest()[:8]: MD5 is abstracted by a digest
\* that is, like it, a function of the whole text yielding 8 hex digits
\* (four polynomial checksums of one byte each).
DigestModulus == 256

RECURSIVE PowMod(_, _)
PowMod(b, e) ==
    IF e = 0 THEN 1
    ELSE LET half == PowMod(b, e \div 2)
         IN  IF e % 2 = 0 THEN (half * half) % DigestModulus
             ELSE (((half * half) % DigestModulus) * b) % DigestModulus

RECURSIVE Checksum(_, _, _, _)
Checksum(s, lo, hi, mult) ==
    IF lo > hi THEN 0
    ELSE IF lo = hi THEN CharCode(s[lo]) % DigestModulus
    ELSE LET mid == (lo + hi) \div 2
         IN  (Checksum(s, lo, mid, mult) * PowMod(mult, hi - mid)
                + Checksum(s, mid + 1, hi, mult)) % DigestModulus

HexByte(h) == <<HexDigits[(h \div 16) + 1], HexDigits[(h % 16) + 1]>>

Md5Hex8(s) ==
    HexByte((Checksum(s, 1, Len(s), 31) + Len(s)) % DigestModulus)
    \o HexByte(Checksum(s, 1, Len(s), 37))
    \o HexByte(Checksum(s, 1, Len(s), 41))
    \o HexByte(Checksum(s, 1, Len(s), 43))

Unknown == <<"U", "n", "k", "n", "o", "w", "n">>

\* the hash taken of the truncated name instead of the whole one
sanitize_folder_name_hashOfPrefix(folder_name, max_length) ==
    LET clean == CleanName(folder_name)
        cut == PySliceTo(clean, max_length - HashLen)
        short == IF Len(clean) > max_length THEN cut \o Md5Hex8(cut) ELSE clean
    IN  IF short # <<>> THEN short ELSE Unknown

\* ftp_agenda.py sanitize_folder_name(folder_name, max_length)
sanitize_folder_name(folder_name, max_length) ==
    LET clean == CleanName(folder_name)
        short == IF Len(clean) > max_length
                 THEN PySliceTo(clean, max_length - HashLen) \o Md5Hex8(clean)
                 ELSE clean
    IN  IF short # <<>> THEN short ELSE Unknown

\* ftp.py sanitize_folder_name(folder_name): no truncation
sanitize_folder_name_plain(folder_name) ==
    LET clean == CleanName(folder_name)
    IN  IF clean # <<>> THEN clean ELSE Unknown

----------------------------------------------------------------------------
(* Names, paths and dictionaries *)

StartsWith(s, pre) == Len(s) >= Len(pre) /\ SubSeq(s, 1, Len(pre)) = pre
EndsWith(s, suf) ==
    Len(s) >= Len(suf) /\ SubSeq(s, Len(s) - Len(suf) + 1, Len(s)) = suf

\* s.rfind(c) + 1: the position of the last c in s, 0 when there is none
LastPos(s, c) ==
    LET at == {i \in 1..Len(s) : s[i] = c}
    IN  IF at = {} THEN 0 ELSE CHOOSE i \in at : \A j \in at : j <= i

\* os.path.splitext(p)[0] (posixpath): cut at the last dot, unless only dots
\* stand between the last separator and it
SplitextBase(p) ==
    LET sepIndex == LastPos(p, "/")
        dotIndex == LastPos(p, ".")
    IN  IF /\ dotIndex > sepIndex
           /\ \E k \in (sepIndex + 1)..(dotIndex - 1) : p[k] # "."
        THEN SubSeq(p, 1, dotIndex - 1)
        ELSE p

\* everything before the last separator, the root's own separator included
Dirname_cutsAtSeparator(p) == SubSeq(p, 1, LastPos(p, "/") - 1)

\* os.path.dirname(p) (posixpath)
Dirname(p) ==
    LET head == SubSeq(p, 1, LastPos(p, "/"))
        keep == {i \in 1..Len(head) : head[i] # "/"}
    IN  IF keep = {} THEN head
        ELSE SubSeq(head, 1, CHOOSE i \in keep : \A j \in keep : j <= i)

\* os.path.join(a, b) (posixpath)
Join(a, b) ==
    IF StartsWith(b, <<"/">>) THEN b
    ELSE IF a = <<>> \/ EndsWith(a, <<"/">>) THEN a \o b
    ELSE a \o <<"/">> \o b

\* d[k] = v of a dictionary, modelled as a function
Put(d, k, v) == [x \in (DOMAIN d) \cup {k} |-> IF x = k THEN v ELSE d[x]]

EmptyDict == <<>>

----------------------------------------------------------------------------
(* The manifest and the index built from it *)

TDoc == <<"T", "D", "o", "c">>
TypeLabel == <<"T", "y", "p", "e">>
AgendaLabel == <<"A", "g", "e", "n", "d", "a", " ", "i", "t", "e", "m">>

\* the header label of the category column: 'Agenda item' or 'Type'
CategoryLabel(v) == IF v = Agenda THEN AgendaLabel ELSE TypeLabel

\* an empty cell (None)
None == <<>>

\* Python's truth value of a cell: None and '' are false
Truthy(cell) == cell # None

\* x in row
InRow(x, row) == \E j \in 1..Len(row) : row[j] = x

\* row.index(x)
IndexOf(row, x) == CHOOSE j \in 1..Len(row) : row[j] = x /\ \A k \in 1..(j - 1) : row[k] # x

\* the first row holding both header labels (0: header_row stays None)
FindHeader(rows, v) ==
    LET hits == {i \in 1..Len(rows) :
                    InRow(TDoc, rows[i]) /\ InRow(CategoryLabel(v), rows[i])}
    IN  IF hits = {} THEN 0 ELSE CHOOSE i \in hits : \A j \in hits : i <= j

\* sanitize_folder_name(str(type_val)) as each script calls it
SanitizeCategory(v, cell) ==
    IF v = Agenda THEN sanitize_folder_name(cell, DefaultMaxLength)
    ELSE sanitize_folder_name_plain(cell)

\* the rows the second loop visits: iter_rows(min_row=sheet.min_row + 1)
FirstDataRow == 2

\* whether the row passes the tests of the loop body
Qualifies(row, tdoc_index, type_index) ==
    /\ Len(row) > Max(tdoc_index, type_index) - 1
    /\ Truthy(row[type_index])
    /\ Truthy(row[tdoc_index])

\* the folder and both dictionary entries recorded only when the folder is new
IndexRow_onlyNewFolders(v, row, tdoc_index, type_index, bad, st) ==
    IF ~Qualifies(row, tdoc_index, type_index) THEN st
    ELSE LET sanitized_type == SanitizeCategory(v, row[type_index])
         IN  IF sanitized_type \in st.dirs THEN st
             ELSE IF sanitized_type \in bad
                  THEN IF v = Agenda THEN st ELSE [st EXCEPT !.crashed = TRUE]
             ELSE [st EXCEPT
                     !.dirs = st.dirs \cup {sanitized_type},
                     !.folders = Put(st.folders, sanitized_type, sanitized_type),
                     !.map = Put(st.map, row[tdoc_index], sanitized_type)]

\* the identifier is recorded before the folder is made
IndexRow_mapBeforeFolder(v, row, tdoc_index, type_index, bad, st) ==
    IF ~Qualifies(row, tdoc_index, type_index) THEN st
    ELSE LET sanitized_type == SanitizeCategory(v, row[type_index])
             noted == [st EXCEPT
                         !.map = Put(st.map, row[tdoc_index], sanitized_type)]
         IN  IF sanitized_type \notin st.dirs /\ sanitized_type \in bad
             THEN IF v = Agenda THEN noted ELSE [noted EXCEPT !.crashed = TRUE]
             ELSE [noted EXCEPT
                     !.dirs = st.dirs \cup {sanitized_type},
                     !.folders = Put(st.folders, sanitized_type, sanitized_type)]

\* one row of the second loop. st: [map, folders, dirs, crashed].
\* ftp_agenda.py catches the OSError of os.makedirs and skips the row;
\* ftp.py does not catch it.
IndexRow(v, row, tdoc_index, type_index, bad, st) ==
    IF ~Qualifies(row, tdoc_index, type_index) THEN st
    ELSE LET sanitized_type == SanitizeCategory(v, row[type_index])
         IN  IF sanitized_type \notin st.dirs /\ sanitized_type \in bad
             THEN IF v = Agenda THEN st ELSE [st EXCEPT !.crashed = TRUE]
             ELSE [st EXCEPT
                     !.dirs = st.dirs \cup {sanitized_type},
                     !.folders = Put(st.folders, sanitized_type, sanitized_type),
                     !.map = Put(st.map, row[tdoc_index], sanitized_type)]

RECURSIVE IndexRows(_, _, _, _, _, _, _)
IndexRows(v, rows, i, tdoc_index, type_index, bad, st) ==
    IF i > Len(rows) \/ st.crashed THEN st
    ELSE IndexRows(v, rows, i + 1, tdoc_index, type_index, bad,
                   IndexRow(v, rows[i], tdoc_index, type_index, bad, st))

\* the index built from the sheet: both dictionaries start empty, the
\* folders already under local_dir are d
build_index(v, rows, d, bad) ==
    LET h == FindHeader(rows, v)
        st0 == [map |-> EmptyDict, folders |-> EmptyDict, dirs |-> d,
                crashed |-> FALSE]
    IN  IF h = 0 THEN [st0 EXCEPT !.dirs = d] @@ [header |-> 0]
        ELSE IndexRows(v, rows, FirstDataRow,
                       IndexOf(rows[h], TDoc),
                       IndexOf(rows[h], CategoryLabel(v)), bad, st0)
             @@ [header |-> h]

----------------------------------------------------------------------------
(* States outside a run *)

NoOp == [kind |-> "none", fresh |-> FALSE]

\* nothing typed yet
NoChoice == [input |-> "none", sent |-> FALSE, cwd |-> <<>>]

\* everything of a run but its surroundings, before download_ftp_folder starts
RunFresh ==
    /\ ret = "none"
    /\ crashWhy = "none"
    /\ ftp = 0
    /\ nextSid = 0
    /\ openS = {}
    /\ dropped = {}
    /\ sessCwd = EmptyDict
    /\ drops = 0
    /\ connAttempt = 0
    /\ connLocal = 0
    /\ connTried = 0
    /\ peakOpen = 0
    /\ current_dir = <<"/">>
    /\ directories = <<>>
    /\ navSteps = 0
    /\ remote_dir = <<>>
    /\ files = <<>>
    /\ fileIdx = 0
    /\ excel_file = None
    /\ dlFile = <<>>
    /\ dlAttempt = 0
    /\ dlCaller = "none"
    /\ dlLog = <<>>
    /\ fetchResult = EmptyDict
    /\ tdoc_type_map = EmptyDict
    /\ type_folders = EmptyDict
    /\ header_row = 0
    /\ builds = 0
    /\ dirs = {}
    /\ rootFiles = {}
    /\ partialFiles = {}
    /\ folderFiles = {}
    /\ extracted = {}
    /\ fresh = FALSE
    /\ lastOp = NoOp
    /\ distResult = EmptyDict
    /\ lastChoice = NoChoice
    /\ faults = FALSE

\* no run at all
RunIdle ==
    /\ variant = Agenda
    /\ manifest = <<>>
    /\ unmakable = {}
    /\ pc = "off"
    /\ RunFresh

SanIdle ==
    /\ san_variant = Agenda
    /\ san_label = <<>>
    /\ san_max = DefaultMaxLength
    /\ san_out = <<>>
    /\ san_called = FALSE

\* values of the analyzer's attributes: absent, [], None or a string
Unset == [kind |-> "unset", text |-> <<>>]
EmptyList == [kind |-> "list", text |-> <<>>]
PyNone == [kind |-> "none", text |-> <<>>]
PyStr(t) == [kind |-> "str", text |-> t]

\* Python's truth value of such a value
IsTrue(v) == v.kind = "str" /\ v.text # <<>>

\* a DocumentAnalyzer just constructed (lines 28-30: self.summaries = [],
\* self.discussion_points = [], no attribute cross_document_analysis) in a
\* folder without report or backup
DocFresh ==
    /\ docx_files = <<>>
    /\ doc_index = 0
    /\ doc_text = <<>>
    /\ summaries = <<>>
    /\ cross_document_analysis = Unset
    /\ discussion_points = EmptyList
    /\ backup_written = FALSE
    /\ report = <<>>
    /\ doc_trace = <<>>

\* no summarizer at all
DocIdle ==
    /\ folder = <<>>
    /\ doc_pc = "off"
    /\ DocFresh

----------------------------------------------------------------------------
(* The sanitizer applied to bounded labels *)

LabelChars == {"a", "/", "?", ",", " ", "\n", "\t"}

\* a run of ordinary characters, one short of max_length
Run(n) == [i \in 1..n |-> "x"]

RunToken == "RUN"

Tokens == LabelChars \cup {RunToken}

TokenSeqs == UNION {[1..n -> Tokens] : n \in 0..MaxTokens}

RECURSIVE Expand(_, _)
Expand(toks, runLen) ==
    IF toks = <<>> THEN <<>>
    ELSE (IF Head(toks) = RunToken THEN Run(runLen) ELSE <<Head(toks)>>)
         \o Expand(Tail(toks), runLen)

MaxLengths == {DefaultMaxLength} \cup (0..SmallMaxLength)

\* the label of end-to-end scenario D
ScenarioDLabel ==
    <<"V", "e", "r", "y", " ", "l", "o", "n", "g", " ", "c", "a", "t", "e",
      "g", "o", "r", "y", " ", "n", "a", "m", "e", " ", "t", "h", "a", "t",
      " ", "e", "x", "c", "e", "e", "d", "s", " ", "f", "i", "f", "t", "y",
      " ", "c", "h", "a", "r", "a", "c", "t", "e", "r", "s", " ", "t", "o",
      "t", "a", "l", " ", "l", "e", "n", "g", "t", "h", " ", "e", "a", "s",
      "i", "l", "y">>

Labels(max_length) ==
    {Expand(t, Max(max_length - 1, 1)) : t \in TokenSeqs} \cup {ScenarioDLabel}

InitSan ==
    /\ san_variant \in Variants
    /\ san_max \in (IF san_variant = Agenda THEN MaxLengths ELSE {DefaultMaxLength})
    /\ san_label \in Labels(san_max)
    /\ san_out = <<>>
    /\ san_called = FALSE
    /\ RunIdle
    /\ DocIdle

SanitizeAgenda ==
    /\ san_variant = Agenda
    /\ ~san_called
    /\ san_out' = sanitize_folder_name(san_label, san_max)
    /\ san_called' = TRUE
    /\ UNCHANGED <<san_variant, san_label, san_max, runVars, docVars>>

SanitizePlain ==
    /\ san_variant = Plain
    /\ ~san_called
    /\ san_out' = sanitize_folder_name_plain(san_label)
    /\ san_called' = TRUE
    /\ UNCHANGED <<san_variant, san_label, san_max, runVars, docVars>>

NextSan == SanitizeAgenda \/ SanitizePlain

SpecSan == InitSan /\ [][NextSan]_vars

----------------------------------------------------------------------------
(* Identifiers and categories of the sheets *)

S1 == <<"S", "1">>
S2 == <<"S", "2">>
CatSec == <<"S", "e", "c">>
CatAB == <<"A", "/", "B">>

----------------------------------------------------------------------------
(* The archive host *)

Root == <<"/">>
DirM == <<"/", "m">>
DirMD == <<"/", "m", "/", "d">>
RemoteDirs == {Root, DirM, DirMD}

ZipExt == <<".", "z", "i", "p">>
XlsxExt == <<".", "x", "l", "s", "x">>
TDocListPrefix == <<"T", "D", "o", "c", "_", "L", "i", "s", "t">>

NameM == <<"m">>
NameD == <<"d">>
ReadmeTxt == <<"r", ".", "t", "x", "t">>
S1Zip == S1 \o ZipExt
S2Zip == S2 \o ZipExt
TDocListXlsx == TDocListPrefix \o XlsxExt

\* the names the host lists in a directory, in its order
Entries(path) ==
    IF path = Root THEN <<NameM, ReadmeTxt>>
    ELSE IF path = DirM THEN <<S1Zip, TDocListXlsx, S2Zip, NameD>>
    ELSE <<>>

\* list_directories(ftp): the listed names without a dot
ListDirectories(path) ==
    SelectSeq(Entries(path), LAMBDA d : ~InRow(".", d))

\* next((f for f in files if f.startswith('TDoc_List') and
\* f.endswith('.xlsx')), None)
FindExcel(fs) ==
    LET hits == {i \in 1..Len(fs) :
                    StartsWith(fs[i], TDocListPrefix) /\ EndsWith(fs[i], XlsxExt)}
    IN  IF hits = {} THEN None
        ELSE fs[CHOOSE i \in hits : \A j \in hits : i <= j]

\* the superscript two, U+00B2: a digit for str.isdigit(), not for int()
SuperscriptTwo == "^2"

\* what the operator may type
Choices == {"0", "-1", "1", "2", "x", SuperscriptTwo}

\* choice.isdigit()
IsDigit(choice) == choice \in {"0", "1", "2", SuperscriptTwo}

\* int(choice) raises ValueError
IntRaises(choice) == choice \notin {"0", "-1", "1", "2"}

\* int(choice) of a choice of decimal digits
IntOf(choice) == IF choice = "0" THEN 0 ELSE IF choice = "1" THEN 1 ELSE 2

----------------------------------------------------------------------------
(* One run of download_ftp_folder *)

\* the sheets a run may meet: scenario A, no header row, a duplicate
\* identifier, a header row below other rows
PipelineManifests(v) ==
    {<<<<TDoc, CategoryLabel(v)>>, <<S1, CatSec>>, <<S2, CatSec>>>>,
     <<<<S1, CatSec>>, <<S2, CatSec>>>>,
     <<<<TDoc, CategoryLabel(v)>>, <<S1, CatSec>>, <<S1, CatAB>>>>,
     <<<<None, CatSec>>, <<S2, CatSec>>, <<TDoc, CategoryLabel(v)>>,
       <<S1, CatAB>>>>}

Init ==
    /\ SanIdle
    /\ DocIdle
    /\ variant \in Variants
    /\ manifest \in PipelineManifests(variant)
    /\ unmakable \in {{}, {SanitizeCategory(variant, CatAB)}}
    /\ pc = "connect"
    /\ RunFresh

\* max_attempts of ftp_connect and of download_file
ConnectMaxAttempts == 3
DlMaxAttempts == 3

Alive(s) == s \in openS /\ s \notin dropped

Restrict(d, keys) == [x \in (DOMAIN d) \cap keys |-> d[x]]

\* the process ends with an uncaught exception
Crash(why) == pc' = "crashed" /\ crashWhy' = why

\* the top of the while True loop: ftp_agenda.py checks the session first
AtLoopTop ==
    IF variant = Agenda THEN pc' = "refresh" /\ ret' = "nav_list"
    ELSE pc' = "nav_list" /\ ret' = ret

\* the entry of download_file (ftp_agenda.py) or the RETR itself (ftp.py)
StartDownload(file, caller) ==
    /\ dlFile' = file
    /\ dlCaller' = caller
    /\ dlAttempt' = 0
    /\ dlLog' = <<>>
    /\ IF variant = Agenda THEN pc' = "refresh" /\ ret' = "dl_retr"
       ELSE pc' = "dl_retr" /\ ret' = ret

\* the else branch after the last attempt returns failure at once
IsLastAttempt_oneEarly(attempt, max_attempts) == attempt >= max_attempts - 2

\* attempt < max_attempts - 1 fails: the attempt was the last one
IsLastAttempt(attempt, max_attempts) == ~(attempt < max_attempts - 1)

\* every failed download ends the loop over the files
AfterFetchFailure_alwaysQuit(caller) == "quit"

\* where the caller goes on when download_file returned False
AfterFetchFailure(caller) == IF caller = "excel" THEN "quit" ELSE "loop"

\* a downloaded archive is not distributed
AfterFetchSuccess_skipDistribute(caller) ==
    IF caller = "excel" THEN "build" ELSE "loop"

\* where the caller goes on when the download succeeded (lines 109-112 and
\* 148-151; ftp.py 63-65 and 101-103)
AfterFetchSuccess(caller) == IF caller = "excel" THEN "build" ELSE "distribute"

\* the except clause of download_file (lines 57-64)
DlAttemptFailed(entry) ==
    /\ dlLog' = Append(dlLog, entry)
    /\ crashWhy' = crashWhy
    /\ UNCHANGED <<dlFile, dlCaller, files, excel_file>>
    /\ IF ~IsLastAttempt(dlAttempt, DlMaxAttempts)
       THEN /\ dlAttempt' = dlAttempt + 1
            /\ pc' = "refresh"
            /\ ret' = "dl_retr"
            /\ UNCHANGED <<fetchResult, fileIdx>>
       ELSE /\ dlAttempt' = dlAttempt
            /\ fetchResult' = Put(fetchResult, dlFile, "failure")
            /\ pc' = AfterFetchFailure(dlCaller)
            /\ ret' = ret
            /\ fileIdx' = IF dlCaller = "zip" THEN fileIdx + 1 ELSE fileIdx

ConnectOutcomes == {"ok", "timeout", "login_perm", "refused", "reset"}

\* the exceptions ftp_connect catches: error_perm, error_temp, SocketTimeout
ConnectCaught == {"timeout", "login_perm"}

\* one attempt of ftp_connect (lines 28-41), or lines 20-21 of ftp.py.
\* "login_perm": FTP(host) connected and login() raised error_perm;
\* "timeout": FTP(host) timed out; "refused": ConnectionRefusedError;
\* "reset": ConnectionResetError.
ConnectAttempt(outcome) ==
    /\ pc = "connect"
    /\ outcome \in {"ok", "login_perm"} => nextSid < MaxSessions
    /\ LET new == nextSid + 1
           opens == outcome \in {"ok", "login_perm"}
           nowOpen == IF opens THEN (openS \ {connLocal}) \cup {new} ELSE openS
       IN  /\ nextSid' = IF opens THEN new ELSE nextSid
           /\ openS' = nowOpen
           /\ dropped' = dropped \cap nowOpen
           /\ sessCwd' = IF opens THEN Put(Restrict(sessCwd, nowOpen), new, Root)
                         ELSE sessCwd
           /\ peakOpen' = IF opens THEN Max(peakOpen, Cardinality(openS) + 1)
                          ELSE peakOpen
           /\ connTried' = connAttempt + 1
           /\ drops' = drops
           /\ IF outcome = "ok"
              THEN /\ ftp' = new
                   /\ connLocal' = 0
                   /\ connAttempt' = 0
                   /\ crashWhy' = crashWhy
                   /\ fresh' = (ret # "none")
                   /\ IF ret = "none" THEN AtLoopTop ELSE pc' = ret /\ ret' = ret
                   /\ UNCHANGED <<xferVars>>
              ELSE /\ ftp' = ftp
                   /\ connLocal' = IF outcome = "login_perm" THEN new ELSE connLocal
                   /\ fresh' = FALSE
                   /\ IF variant = Plain
                      THEN /\ Crash("connect_uncaught")
                           /\ UNCHANGED <<connAttempt, ret, xferVars>>
                      ELSE IF outcome \in ConnectCaught
                      THEN IF connAttempt < ConnectMaxAttempts - 1
                           THEN /\ connAttempt' = connAttempt + 1
                                /\ UNCHANGED <<pc, ret, crashWhy, xferVars>>
                           ELSE /\ Crash(IF ret = "none" THEN "connect_exhausted"
                                         ELSE "reconnect_exhausted")
                                /\ UNCHANGED <<connAttempt, ret, xferVars>>
                      ELSE IF outcome = "reset" /\ ret = "dl_retr"
                      THEN /\ DlAttemptFailed("reconnect_reset")
                           /\ connAttempt' = connAttempt
                      ELSE /\ Crash(IF ret = "none" THEN "connect_uncaught"
                                    ELSE "reconnect_uncaught")
                           /\ UNCHANGED <<connAttempt, ret, xferVars>>
    /\ faults' = (faults \/ outcome # "ok")
    /\ UNCHANGED <<lastOp, distResult, lastChoice>>
    /\ UNCHANGED <<offVars, envVars, navVars, idxVars, fsVars>>

\* the host drops the session (idle timeout)
Drop ==
    /\ pc \notin {"off", "done", "crashed", "blocked"}
    /\ drops < MaxDrops
    /\ Alive(ftp)
    /\ dropped' = dropped \cup {ftp}
    /\ drops' = drops + 1
    /\ faults' = TRUE
    /\ UNCHANGED <<offVars, envVars, ctlVars, ftp, nextSid, openS, sessCwd,
                   connAttempt, connLocal, connTried, peakOpen, navVars,
                   xferVars, idxVars, fsVars, fresh, lastOp, distResult,
                   lastChoice>>

\* the stale session is left open
CloseStale_leftOpen(open, s) == open

\* ftp.close() of refresh_connection
CloseStale(open, s) == open \ {s}

\* refresh_connection (lines 42-49) up to its call of ftp_connect
Probe ==
    /\ pc = "refresh"
    /\ IF Alive(ftp)
       THEN /\ pc' = ret
            /\ fresh' = TRUE
            /\ UNCHANGED <<openS, dropped, sessCwd, connAttempt, connLocal>>
       ELSE /\ pc' = "connect"
            /\ fresh' = FALSE
            /\ openS' = CloseStale(openS, ftp)
            /\ dropped' = dropped \ {ftp}
            /\ sessCwd' = Restrict(sessCwd, openS')
            /\ connAttempt' = 0
            /\ connLocal' = 0
    /\ UNCHANGED <<offVars, envVars, ret, crashWhy, ftp, nextSid, drops,
                   connTried, peakOpen, navVars, xferVars, idxVars, fsVars,
                   lastOp, distResult, lastChoice, faults>>

\* directories = list_directories(ftp) (line 73; ftp.py line 27)
NavList ==
    /\ pc = "nav_list"
    /\ lastOp' = [kind |-> "list", fresh |-> fresh]
    /\ fresh' = FALSE
    /\ IF Alive(ftp)
       THEN /\ directories' = ListDirectories(sessCwd[ftp])
            /\ pc' = "nav_input"
            /\ crashWhy' = crashWhy
       ELSE /\ Crash("list")
            /\ directories' = directories
    /\ UNCHANGED <<offVars, envVars, ret, connVars, current_dir, navSteps,
                   remote_dir, xferVars, idxVars, fsVars, distResult,
                   lastChoice, faults>>

\* ftp.cwd(path): the session's directory becomes path, or the call raises
CwdOk(path) == Alive(ftp) /\ path \in RemoteDirs

\* choice = input(...) and the branches on it (lines 81-94; ftp.py 35-48)
NavChoose(choice) ==
    /\ pc = "nav_input"
    /\ choice # "0" => navSteps < MaxNavSteps
    /\ fresh' = FALSE
    /\ navSteps' = IF choice = "0" THEN navSteps ELSE navSteps + 1
    /\ IF choice = "0"
       THEN /\ remote_dir' = current_dir
            /\ pc' = "sel_cwd"
            /\ lastChoice' = [input |-> choice, sent |-> FALSE, cwd |-> None]
            /\ UNCHANGED <<current_dir, sessCwd, ret, crashWhy, lastOp>>
       ELSE IF choice # "-1" /\ IsDigit(choice) /\ IntRaises(choice)
       THEN /\ Crash("input")
            /\ lastChoice' = [input |-> choice, sent |-> FALSE, cwd |-> None]
            /\ UNCHANGED <<current_dir, remote_dir, sessCwd, ret, lastOp>>
       ELSE IF choice = "-1" \/ (IsDigit(choice) /\ 1 <= IntOf(choice)
                                  /\ IntOf(choice) <= Len(directories))
       THEN /\ current_dir' = IF choice = "-1" THEN Dirname(current_dir)
                              ELSE Join(current_dir, directories[IntOf(choice)])
            /\ remote_dir' = remote_dir
            /\ lastChoice' = [input |-> choice, sent |-> TRUE,
                             cwd |-> current_dir']
            /\ lastOp' = [kind |-> "cwd", fresh |-> fresh]
            /\ IF CwdOk(current_dir')
               THEN /\ sessCwd' = Put(sessCwd, ftp, current_dir')
                    /\ AtLoopTop
                    /\ crashWhy' = crashWhy
               ELSE /\ Crash("cwd")
                    /\ UNCHANGED <<sessCwd, ret>>
       ELSE /\ AtLoopTop
            /\ lastChoice' = [input |-> choice, sent |-> FALSE, cwd |-> None]
            /\ UNCHANGED <<current_dir, remote_dir, sessCwd, crashWhy, lastOp>>
    /\ UNCHANGED <<offVars, envVars, ftp, nextSid, openS, dropped, drops,
                   connAttempt, connLocal, connTried, peakOpen, directories,
                   xferVars, idxVars, fsVars, distResult, faults>>

\* local_dir is made and ftp.cwd(remote_dir) sent (lines 96-99; ftp.py 50-53)
SelectCwd ==
    /\ pc = "sel_cwd"
    /\ lastOp' = [kind |-> "cwd", fresh |-> fresh]
    /\ fresh' = FALSE
    /\ IF CwdOk(remote_dir)
       THEN /\ sessCwd' = Put(sessCwd, ftp, remote_dir)
            /\ crashWhy' = crashWhy
            /\ IF variant = Agenda THEN pc' = "refresh" /\ ret' = "nlst"
               ELSE pc' = "nlst" /\ ret' = ret
       ELSE /\ Crash("cwd")
            /\ UNCHANGED <<sessCwd, ret>>
    /\ UNCHANGED <<offVars, envVars, ftp, nextSid, openS, dropped, drops,
                   connAttempt, connLocal, connTried, peakOpen, navVars,
                   xferVars, idxVars, fsVars, distResult, lastChoice, faults>>

\* files = ftp.nlst() and the search of the workbook (lines 102-108, 170-171;
\* ftp.py 55-61, 115-116)
Nlst ==
    /\ pc = "nlst"
    /\ lastOp' = [kind |-> "nlst", fresh |-> fresh]
    /\ fresh' = FALSE
    /\ IF Alive(ftp)
       THEN /\ files' = Entries(sessCwd[ftp])
            /\ excel_file' = FindExcel(files')
            /\ crashWhy' = crashWhy
            /\ IF excel_file' = None
               THEN /\ pc' = "quit"
                    /\ UNCHANGED <<ret, dlFile, dlCaller, dlAttempt, dlLog>>
               ELSE StartDownload(excel_file', "excel")
       ELSE /\ Crash("nlst")
            /\ UNCHANGED <<ret, files, excel_file, dlFile, dlCaller, dlAttempt,
                           dlLog>>
    /\ UNCHANGED <<offVars, envVars, connVars, navVars, fileIdx, fetchResult,
                   idxVars, fsVars, distResult, lastChoice, faults>>

\* RETR can succeed on a live session whose directory holds the file
CanRetrieve(file) == Alive(ftp) /\ InRow(file, Entries(sessCwd[ftp]))

\* the local file is opened for writing and RETR sent (lines 54-56 of
\* download_file; ftp.py 61-62, 99-100). "transient": error_perm, error_temp,
\* SocketTimeout or ConnectionResetError; "fatal": any other exception;
\* "stall": the host stops sending without closing the connection. FTP(host)
\* is created without a timeout (line 30; ftp.py 20), so the sockets block
\* and retrbinary never returns: the run stays at "blocked".
Retr(outcome) ==
    /\ pc = "dl_retr"
    /\ outcome \in (IF CanRetrieve(dlFile)
                    THEN {"ok", "transient", "fatal", "stall"}
                    ELSE {"transient", "fatal"})
    /\ lastOp' = [kind |-> "retr", fresh |-> fresh]
    /\ fresh' = FALSE
    /\ faults' = (faults \/ outcome # "ok")
    /\ rootFiles' = rootFiles \cup {dlFile}
    /\ partialFiles' = IF outcome = "ok" THEN partialFiles \ {dlFile}
                       ELSE partialFiles \cup {dlFile}
    /\ IF outcome = "ok"
       THEN /\ dlLog' = Append(dlLog, "ok")
            /\ fetchResult' = Put(fetchResult, dlFile, "success")
            /\ pc' = AfterFetchSuccess(dlCaller)
            /\ UNCHANGED <<ret, crashWhy, dlFile, dlCaller, dlAttempt, files,
                           excel_file, fileIdx>>
       ELSE IF outcome = "stall"
       THEN /\ pc' = "blocked"
            /\ UNCHANGED <<ret, crashWhy, dlFile, dlCaller, dlAttempt, files,
                           excel_file, fileIdx, dlLog, fetchResult>>
       ELSE IF outcome = "transient" /\ variant = Agenda
       THEN DlAttemptFailed("transient")
       ELSE /\ Crash("retr")
            /\ dlLog' = Append(dlLog, outcome)
            /\ UNCHANGED <<ret, dlFile, dlCaller, dlAttempt, files, excel_file,
                           fileIdx, fetchResult>>
    /\ UNCHANGED <<offVars, envVars, connVars, navVars, idxVars, dirs,
                   folderFiles, extracted, distResult, lastChoice>>

\* the workbook is read and both dictionaries built (lines 112-142, 166-167;
\* ftp.py 65-94)
BuildEffect(r) ==
    /\ tdoc_type_map' = r.map
    /\ type_folders' = r.folders
    /\ header_row' = r.header
    /\ dirs' = r.dirs
    /\ builds' = builds + 1

Build ==
    /\ pc = "build"
    /\ LET r == build_index(variant, manifest, dirs, unmakable)
       IN  /\ BuildEffect(r)
           /\ IF r.crashed THEN Crash("build") /\ fileIdx' = fileIdx
              ELSE /\ crashWhy' = crashWhy
                   /\ IF variant = Agenda /\ r.header = 0
                      THEN pc' = "quit" /\ fileIdx' = fileIdx
                      ELSE pc' = "loop" /\ fileIdx' = 1
    /\ UNCHANGED <<offVars, envVars, ret, connVars, navVars, files, excel_file,
                   dlFile, dlAttempt, dlCaller, dlLog, fetchResult, rootFiles,
                   partialFiles, folderFiles, extracted, histVars>>

\* for file in files: if file.endswith('.zip') (lines 144-147; ftp.py 96-98)
LoopNext ==
    /\ pc = "loop"
    /\ IF fileIdx > Len(files)
       THEN /\ pc' = "quit"
            /\ UNCHANGED <<ret, fileIdx, dlFile, dlCaller, dlAttempt, dlLog>>
       ELSE IF EndsWith(files[fileIdx], ZipExt)
       THEN /\ StartDownload(files[fileIdx], "zip")
            /\ fileIdx' = fileIdx
       ELSE /\ fileIdx' = fileIdx + 1
            /\ UNCHANGED <<pc, ret, dlFile, dlCaller, dlAttempt, dlLog>>
    /\ UNCHANGED <<offVars, envVars, crashWhy, connVars, navVars, files,
                   excel_file, fetchResult, idxVars, fsVars, histVars>>

DistributeOutcomes == {"ok", "move_fail", "extract_oserror", "bad_zip"}

\* an archive without an entry in the mapping is filed under 'Unknown'
FolderFor_defaultUnknown(file) ==
    LET file_name_without_ext == SplitextBase(file)
    IN  IF file_name_without_ext \notin DOMAIN tdoc_type_map
        THEN [found |-> "yes", folder |-> Unknown]
        ELSE IF tdoc_type_map[file_name_without_ext] \notin DOMAIN type_folders
        THEN [found |-> "key_error", folder |-> None]
        ELSE [found |-> "yes",
              folder |-> type_folders[tdoc_type_map[file_name_without_ext]]]

\* the archive is filed under a folder named by its identifier
FolderFor_byIdentifier(file) ==
    LET file_name_without_ext == SplitextBase(file)
    IN  IF file_name_without_ext \notin DOMAIN tdoc_type_map
        THEN [found |-> "no", folder |-> None]
        ELSE [found |-> "yes", folder |-> file_name_without_ext]

\* the lookups of lines 151-154 (ftp.py 103-106): "no" when the identifier
\* is not in tdoc_type_map, "key_error" when type_folders lacks the category
FolderFor(file) ==
    LET file_name_without_ext == SplitextBase(file)
    IN  IF file_name_without_ext \notin DOMAIN tdoc_type_map
        THEN [found |-> "no", folder |-> None]
        ELSE IF tdoc_type_map[file_name_without_ext] \notin DOMAIN type_folders
        THEN [found |-> "key_error", folder |-> None]
        ELSE [found |-> "yes",
              folder |-> type_folders[tdoc_type_map[file_name_without_ext]]]

\* the downloaded archive is moved and extracted (lines 151-165; ftp.py
\* 103-113). "move_fail": os.rename raises OSError; "extract_oserror": the
\* extraction raises OSError; "bad_zip": ZipFile raises BadZipFile.
Distribute(outcome) ==
    /\ pc = "distribute"
    /\ faults' = (faults \/ outcome # "ok")
    /\ LET target == FolderFor(dlFile)
       IN  IF target.found = "no"
           THEN /\ outcome = "ok"
                /\ pc' = "loop"
                /\ fileIdx' = fileIdx + 1
                /\ distResult' = Put(distResult, dlFile, "unmapped")
                /\ UNCHANGED <<crashWhy, rootFiles, folderFiles, extracted>>
           ELSE IF target.found = "key_error"
           THEN /\ outcome = "ok"
                /\ Crash("distribute")
                /\ distResult' = Put(distResult, dlFile, "no_folder")
                /\ UNCHANGED <<fileIdx, rootFiles, folderFiles, extracted>>
           ELSE LET type_folder == target.folder
                IN  /\ distResult' = Put(distResult, dlFile, outcome)
                    /\ rootFiles' = IF outcome = "move_fail" THEN rootFiles
                                    ELSE rootFiles \ {dlFile}
                    /\ folderFiles' =
                         IF outcome = "move_fail" THEN folderFiles
                         ELSE folderFiles \cup {<<type_folder, dlFile>>}
                    /\ extracted' =
                         IF outcome = "ok"
                         THEN extracted \cup {<<type_folder, dlFile>>}
                         ELSE extracted
                    /\ IF \/ outcome = "bad_zip"
                          \/ (outcome # "ok" /\ variant = Plain)
                       THEN Crash("distribute") /\ fileIdx' = fileIdx
                       ELSE /\ pc' = "loop"
                            /\ fileIdx' = fileIdx + 1
                            /\ crashWhy' = crashWhy
    /\ UNCHANGED <<offVars, envVars, ret, connVars, navVars, files, excel_file,
                   dlFile, dlAttempt, dlCaller, dlLog, fetchResult, idxVars,
                   dirs, partialFiles, fresh, lastOp, lastChoice>>

\* ftp.quit() (line 173; ftp.py 118)
Quit ==
    /\ pc = "quit"
    /\ lastOp' = [kind |-> "quit", fresh |-> fresh]
    /\ fresh' = FALSE
    /\ IF Alive(ftp)
       THEN /\ openS' = openS \ {ftp}
            /\ sessCwd' = Restrict(sessCwd, openS')
            /\ pc' = "done"
            /\ crashWhy' = crashWhy
       ELSE /\ Crash("quit")
            /\ UNCHANGED <<openS, sessCwd>>
    /\ UNCHANGED <<offVars, envVars, ret, ftp, nextSid, dropped, drops,
                   connAttempt, connLocal, connTried, peakOpen, navVars,
                   xferVars, idxVars, fsVars, distResult, lastChoice, faults>>

Next ==
    \/ \E outcome \in ConnectOutcomes : ConnectAttempt(outcome)
    \/ Drop
    \/ Probe
    \/ NavList
    \/ \E choice \in Choices : NavChoose(choice)
    \/ SelectCwd
    \/ Nlst
    \/ \E outcome \in {"ok", "transient", "fatal", "stall"} : Retr(outcome)
    \/ Build
    \/ LoopNext
    \/ \E outcome \in DistributeOutcomes : Distribute(outcome)
    \/ Quit

Spec == Init /\ [][Next]_vars

\* the interpreter runs the script's next statement whenever there is one;
\* a call that never returns has no next statement
SpecLive == Init /\ [][Next]_vars /\ WF_vars(Next)

----------------------------------------------------------------------------
(* What a run without failures leaves behind *)

\* the archives of a listing
ZipsOf(listing) ==
    {listing[i] : i \in {k \in 1..Len(listing) : EndsWith(listing[k], ZipExt)}}

\* the local files and folders after download_ftp_folder has run on a
\* listing and a sheet with no network or filesystem failure (lines 102-165;
\* ftp.py 55-113): ftp_agenda.py runs the archive loop only with a header
\* row, ftp.py runs it after the if/else
RunOutcome(v, rows, listing) ==
    LET excel == FindExcel(listing)
        idx == build_index(v, rows, {}, {})
        loopRuns == excel # None /\ (v = Plain \/ idx.header > 0)
        mapped == {f \in ZipsOf(listing) : SplitextBase(f) \in DOMAIN idx.map}
    IN  [root |-> (IF excel = None THEN {} ELSE {excel})
                  \cup (IF loopRuns THEN ZipsOf(listing) \ mapped ELSE {}),
         dirs |-> IF excel = None THEN {} ELSE idx.dirs,
         placed |-> IF loopRuns
                    THEN {<<idx.folders[idx.map[SplitextBase(f)]], f>> :
                             f \in mapped}
                    ELSE {}]

----------------------------------------------------------------------------
(* The index built from bounded manifests, once and again *)

RowChoices(v) ==
    {<<TDoc, CategoryLabel(v)>>, <<CategoryLabel(v), TDoc>>,
     <<S1, CatSec>>, <<S1, CatAB>>, <<S2, CatSec>>, <<S1, None>>,
     <<None, CatAB>>}

Manifests(v) == UNION {[1..n -> RowChoices(v)] : n \in 0..MaxRows}

\* builds of the same sheet in a row
MaxBuilds == 2

InitIdx ==
    /\ SanIdle
    /\ DocIdle
    /\ variant \in Variants
    /\ manifest \in Manifests(variant)
    /\ unmakable \in {{}, {SanitizeCategory(variant, CatAB)}}
    /\ pc = "rebuild"
    /\ RunFresh

\* lines 115-142 of ftp_agenda.py, 68-94 of ftp.py, run on their own
Rebuild ==
    /\ pc = "rebuild"
    /\ builds < MaxBuilds
    /\ LET r == build_index(variant, manifest, dirs, unmakable)
       IN  /\ BuildEffect(r)
           /\ IF r.crashed THEN Crash("build")
              ELSE pc' = "rebuild" /\ crashWhy' = crashWhy
    /\ UNCHANGED <<offVars, envVars, ret, connVars, navVars, xferVars,
                   rootFiles, partialFiles, folderFiles, extracted, histVars>>

NextIdx == Rebuild

SpecIdx == InitIdx /\ [][NextIdx]_vars

----------------------------------------------------------------------------
(* The document summarizer: DocumentAnalyzer.process_documents of          *)
(* analysis/report.py, from the listing of the folder to the writing of    *)
(* the report                                                              *)

\* entries one folder may hold
MaxEntries == 3

DocxExt == <<".", "d", "o", "c", "x">>
DocA == <<"a">> \o DocxExt
DocB == <<"b">> \o DocxExt
DocC == <<"c">> \o DocxExt
NotesTxt == <<"n", ".", "t", "x", "t">>
FileNames == {DocA, DocB, DocC, NotesTxt}

\* the order in which os.listdir gives the names it gives; the code never
\* compares one name with another
ListingOrder == <<DocA, NotesTxt, DocB, DocC>>

\* what Document(file_path) gives: an exception, or the paragraphs' texts
Unreadable == [opens |-> FALSE, paragraphs |-> <<>>]
DocBodies ==
    {Unreadable} \cup
    {[opens |-> TRUE, paragraphs |-> ps] : ps \in {<<>>, <<<<"p">>>>,
                                                   <<<<>>, <<>>>>}}

\* what the model answers: an exception (from generate_content or from
\* response.text), or the text of the response
Replies ==
    {[raises |-> TRUE, text |-> <<>>]} \cup
    {[raises |-> FALSE, text |-> t] : t \in {<<>>, <<"s">>}}

EntriesNamed(name) ==
    IF EndsWith(name, DocxExt)
    THEN {[name |-> name, body |-> b, reply |-> r] :
              b \in DocBodies, r \in Replies}
    ELSE {[name |-> name, body |-> Unreadable,
           reply |-> [raises |-> TRUE, text |-> <<>>]]}

\* at most MaxEntries of the names, in listing order
NameLists ==
    {ns \in UNION {[1..n -> 1..Len(ListingOrder)] : n \in 0..MaxEntries} :
         \A i \in 1..(Len(ns) - 1) : ns[i] < ns[i + 1]}

RECURSIVE ListingsOf(_)
ListingsOf(ns) ==
    IF ns = <<>> THEN {<<>>}
    ELSE {<<e>> \o rest : e \in EntriesNamed(ListingOrder[Head(ns)]),
                          rest \in ListingsOf(Tail(ns))}

\* listings of at most MaxEntries entries with different names
Folders == UNION {ListingsOf(ns) : ns \in NameLists}

EntryOf(name) ==
    folder[CHOOSE i \in 1..Len(folder) : folder[i].name = name]

\* "\n".join(lines)
RECURSIVE JoinLines(_)
JoinLines(lines) ==
    IF lines = <<>> THEN <<>>
    ELSE IF Len(lines) = 1 THEN lines[1]
    ELSE lines[1] \o <<"\n">> \o JoinLines(Tail(lines))

\* lines 48-58: the paragraphs joined by newlines, '' on any exception
read_docx(entry) ==
    IF entry.body.opens THEN JoinLines(entry.body.paragraphs) ELSE <<>>

\* lines 60-87: a dict on success, None on any exception. The returned
\* value is modelled as a sequence: <<>> for None, <<dict>> for a dict,
\* so that its truth value is "is not the empty sequence".
get_summary_noneOnEmptyReply(text, file_name, reply) ==
    IF reply.raises \/ reply.text = <<>> THEN <<>>
    ELSE <<[file_name |-> file_name, original_text |-> text,
            summary |-> reply.text]>>

get_summary(text, file_name, reply) ==
    IF reply.raises THEN <<>>
    ELSE <<[file_name |-> file_name, original_text |-> text,
            summary |-> reply.text]>>

\* [f for f in os.listdir(...) if f.endswith('.docx')] (line 692)
RECURSIVE DocxOf(_)
DocxOf(listing) ==
    IF listing = <<>> THEN <<>>
    ELSE (IF EndsWith(listing[1].name, DocxExt) THEN <<listing[1].name>>
          ELSE <<>>) \o DocxOf(Tail(listing))

InitDoc ==
    /\ SanIdle
    /\ RunIdle
    /\ folder \in Folders
    /\ doc_pc = "start"
    /\ DocFresh

\* lines 692-700: the folder is listed; an OSError of os.listdir reaches the
\* outer handler and is raised again (769-771); without a .docx name the
\* function returns
ListDocuments(outcome) ==
    /\ doc_pc = "start"
    /\ IF outcome = "oserror"
       THEN doc_pc' = "raised" /\ UNCHANGED <<docx_files, doc_index>>
       ELSE /\ docx_files' = DocxOf(folder)
            /\ IF DocxOf(folder) = <<>>
               THEN doc_pc' = "returned" /\ doc_index' = doc_index
               ELSE doc_pc' = "loop" /\ doc_index' = 1
    /\ UNCHANGED <<folder, doc_text, summaries, tailVars, sanVars, runVars>>

\* lines 703-711: the next document is read; an empty text skips it
ReadDocument ==
    /\ doc_pc = "loop"
    /\ doc_index <= Len(docx_files)
    /\ LET text == read_docx(EntryOf(docx_files[doc_index]))
       IN  /\ doc_text' = text
           /\ IF text = <<>>
              THEN doc_pc' = "loop" /\ doc_index' = doc_index + 1
              ELSE doc_pc' = "summary" /\ doc_index' = doc_index
    /\ UNCHANGED <<folder, docx_files, summaries, tailVars, sanVars, runVars>>

\* lines 713-723: the summary is requested and appended when it is truthy
Summarize ==
    /\ doc_pc = "summary"
    /\ LET file_name == docx_files[doc_index]
           summary == get_summary(doc_text, file_name,
                                  EntryOf(file_name).reply)
       IN  summaries' = summaries \o summary
    /\ doc_index' = doc_index + 1
    /\ doc_pc' = "loop"
    /\ UNCHANGED <<folder, docx_files, doc_text, tailVars, sanVars, runVars>>

\* lines 725-727: after the last document the function returns when there
\* is no summary and goes on to the analyses otherwise
AfterLoop_alwaysAnalyses(list) == "analysis"

AfterLoop(list) == IF list = <<>> THEN "returned" ELSE "analysis"

EndOfDocuments ==
    /\ doc_pc = "loop"
    /\ doc_index > Len(docx_files)
    /\ doc_pc' = AfterLoop(summaries)
    /\ UNCHANGED <<folder, docx_files, doc_index, doc_text, summaries,
                   tailVars, sanVars, runVars>>

\* one more step of the part after the loop, and whether it succeeded
Traced(step, ok) == Append(doc_trace, [step |-> step, ok |-> ok])

\* lines 729-730 and 774-795: the summaries are saved under backups/; any
\* exception is logged and swallowed
SaveIntermediate(outcome) ==
    /\ doc_pc = "analysis"
    /\ backup_written' = (backup_written \/ outcome = "ok")
    /\ doc_trace' = Traced("backup", outcome = "ok")
    /\ doc_pc' = "cross"
    /\ UNCHANGED <<folder, docx_files, doc_index, doc_text, summaries,
                   cross_document_analysis, discussion_points, report,
                   sanVars, runVars>>

\* lines 89-135: the text of the response, None on any exception
analyze_all_documents(reply) ==
    IF reply.raises THEN PyNone ELSE PyStr(reply.text)

\* lines 137-175: the same for the discussion points
analyze_discussion_points(reply) ==
    IF reply.raises THEN PyNone ELSE PyStr(reply.text)

\* lines 732-739
CrossAnalysis(reply) ==
    /\ doc_pc = "cross"
    /\ cross_document_analysis' = analyze_all_documents(reply)
    /\ doc_trace' = Traced("cross", IsTrue(analyze_all_documents(reply)))
    /\ doc_pc' = "discussion"
    /\ UNCHANGED <<folder, docx_files, doc_index, doc_text, summaries,
                   discussion_points, backup_written, report, sanVars,
                   runVars>>

\* lines 741-748
DiscussionAnalysis(reply) ==
    /\ doc_pc = "discussion"
    /\ discussion_points' = analyze_discussion_points(reply)
    /\ doc_trace' = Traced("discussion",
                           IsTrue(analyze_discussion_points(reply)))
    /\ doc_pc' = "report"
    /\ UNCHANGED <<folder, docx_files, doc_index, doc_text, summaries,
                   cross_document_analysis, backup_written, report, sanVars,
                   runVars>>

\* file_name of every entry of a list of summaries
RECURSIVE NamesOf(_)
NamesOf(list) ==
    IF list = <<>> THEN <<>>
    ELSE <<list[1].file_name>> \o NamesOf(Tail(list))

\* lines 376-651, by what the page shows: a card per summary, the overview
\* and the discussion card when the analysis has a non-empty text
generate_html_report ==
    [complete |-> TRUE,
     cards |-> NamesOf(summaries),
     overview |-> IsTrue(cross_document_analysis),
     discussion |-> IsTrue(discussion_points)]

\* what open(output_path, 'w') leaves when the write fails after it
TruncatedReport ==
    [complete |-> FALSE, cards |-> <<>>, overview |-> FALSE,
     discussion |-> FALSE]

\* lines 750-767: the page is generated and written; an exception of open()
\* or of write() is logged and raised again (765-767, 769-771)
WriteReport(outcome) ==
    /\ doc_pc = "report"
    /\ doc_trace' = Traced("report", outcome = "ok")
    /\ IF outcome = "ok"
       THEN report' = <<generate_html_report>> /\ doc_pc' = "finished"
       ELSE /\ doc_pc' = "raised"
            /\ report' = (IF outcome = "write_fails" THEN <<TruncatedReport>>
                          ELSE report)
    /\ UNCHANGED <<folder, docx_files, doc_index, doc_text, summaries,
                   cross_document_analysis, discussion_points,
                   backup_written, sanVars, runVars>>

NextDoc ==
    \/ \E outcome \in {"ok", "oserror"} : ListDocuments(outcome)
    \/ ReadDocument
    \/ Summarize
    \/ EndOfDocuments
    \/ \E outcome \in {"ok", "oserror"} : SaveIntermediate(outcome)
    \/ \E reply \in Replies : CrossAnalysis(reply)
    \/ \E reply \in Replies : DiscussionAnalysis(reply)
    \/ \E outcome \in {"ok", "open_fails", "write_fails"} : WriteReport(outcome)

SpecDoc == InitDoc /\ [][NextDoc]_vars

----------------------------------------------------------------------------
(* Claims about the sanitizer, checked under SpecSan *)

\* every character of the label is removed or becomes whitespace
NothingRemains(label) ==
    \A i \in 1..Len(label) :
        label[i] \in IllegalChars \cup WhitespaceChars \cup {","}

\* C1: the returned name holds none of the characters \ / * ? : " < > |, is
\* never empty, and is the literal "Unknown" when nothing remains of the
\* label after stripping, replacing and trimming.
C1_SafeAndNonEmpty ==
    san_called =>
        /\ \A i \in 1..Len(san_out) : san_out[i] \notin IllegalChars
        /\ san_out # <<>>
        /\ NothingRemains(san_label) => san_out = Unknown

C1_Witness ==
    /\ san_called
    /\ san_label # <<>>
    /\ \E i \in 1..Len(san_label) : san_label[i] \in IllegalChars
    /\ \E i \in 1..Len(san_label) : san_label[i] \in WhitespaceChars
    /\ san_out = Unknown

\* C2: for every label and every max_length the returned name has at most
\* max_length characters (50 for ftp.py, whose sanitizer takes no
\* max_length), the fallback result included.
C2_LengthAtMostMax ==
    san_called => Len(san_out) <= san_max

\* C3 as stated: whenever the sanitized form is longer than max_length the
\* result is its first max_length - 8 characters followed by the 8 hex
\* characters of the hash of the whole sanitized form, max_length characters
\* in all.
C3_TruncatedWithHash_AnyMax ==
    (san_called /\ san_variant = Agenda /\ Len(CleanName(san_label)) > san_max) =>
        /\ Len(san_out) = san_max
        /\ PySliceFrom(san_out, Len(san_out) - HashLen) = Md5Hex8(CleanName(san_label))

\* C3 amended: the same for max_length >= 8; the first max_length - 8
\* characters are those of the sanitized form, the last 8 are hexadecimal and
\* are the hash of the whole sanitized form, and the length is max_length.
C3_TruncatedWithHash ==
    (/\ san_called
     /\ san_variant = Agenda
     /\ san_max >= HashLen
     /\ Len(CleanName(san_label)) > san_max) =>
        /\ Len(san_out) = san_max
        /\ SubSeq(san_out, 1, san_max - HashLen)
               = SubSeq(CleanName(san_label), 1, san_max - HashLen)
        /\ \A i \in (san_max - HashLen + 1)..san_max : san_out[i] \in HexChars
        /\ SubSeq(san_out, san_max - HashLen + 1, san_max)
               = Md5Hex8(CleanName(san_label))

C3_Witness ==
    /\ san_called
    /\ san_variant = Agenda
    /\ san_max = DefaultMaxLength
    /\ san_label = ScenarioDLabel
    /\ Len(san_out) = DefaultMaxLength

----------------------------------------------------------------------------
(* Claims about the index, checked under SpecIdx *)

\* C9: building the identifier -> category mapping a second time from the
\* same rows yields the same mapping, the same folder dictionary and creates
\* no folder the first build had not created.
C9_BuildIdempotent ==
    [][(builds >= 1 /\ builds' = builds + 1 /\ pc' = "rebuild") =>
          /\ tdoc_type_map' = tdoc_type_map
          /\ type_folders' = type_folders
          /\ dirs' = dirs]_vars

C9_Witness ==
    /\ builds = 2
    /\ pc = "rebuild"
    /\ header_row > 0
    /\ DOMAIN tdoc_type_map = {S1, S2}

\* rows after the header that pass the tests of the loop body and name id
RowsOf(id) ==
    {i \in (header_row + 1)..Len(manifest) :
        /\ i >= FirstDataRow
        /\ Qualifies(manifest[i], IndexOf(manifest[header_row], TDoc),
                     IndexOf(manifest[header_row], CategoryLabel(variant)))
        /\ manifest[i][IndexOf(manifest[header_row], TDoc)] = id}

LastRowOf(id) == CHOOSE i \in RowsOf(id) : \A j \in RowsOf(id) : j <= i

\* C10: an identifier that occurs in several data rows is mapped to the
\* sanitized category of the last of them.
C10_LastRowWins ==
    (builds >= 1 /\ pc = "rebuild" /\ header_row > 0) =>
        \A id \in {S1, S2} :
            Cardinality(RowsOf(id)) >= 2 =>
                /\ id \in DOMAIN tdoc_type_map
                /\ tdoc_type_map[id] =
                     SanitizeCategory(variant,
                        manifest[LastRowOf(id)]
                            [IndexOf(manifest[header_row], CategoryLabel(variant))])

\* rows after the header that pass the tests of the loop body
RowsAfterHeader ==
    {i \in (header_row + 1)..Len(manifest) :
        Qualifies(manifest[i], IndexOf(manifest[header_row], TDoc),
                  IndexOf(manifest[header_row], CategoryLabel(variant)))}

CategoryOfRow(i) ==
    SanitizeCategory(variant,
        manifest[i][IndexOf(manifest[header_row], CategoryLabel(variant))])

\* C11: every entry of the mapping and every folder comes from a row after
\* the located header row; the header row and the rows before it contribute
\* nothing.
C11_OnlyRowsAfterHeader ==
    (builds >= 1 /\ header_row > 0) =>
        /\ \A id \in DOMAIN tdoc_type_map :
               \E i \in RowsAfterHeader :
                   /\ manifest[i][IndexOf(manifest[header_row], TDoc)] = id
                   /\ CategoryOfRow(i) = tdoc_type_map[id]
        /\ \A d \in dirs : \E i \in RowsAfterHeader : CategoryOfRow(i) = d

----------------------------------------------------------------------------
(* Claims about the run, checked under Spec *)

ConnectCrashes ==
    {"connect_exhausted", "connect_uncaught", "reconnect_exhausted",
     "reconnect_uncaught"}

\* C4: ftp_connect retries after every transient network or protocol error
\* and fails fatally only after exactly max_attempts attempts have failed.
C4_FatalOnlyAfterMaxAttempts ==
    (variant = Agenda /\ pc = "crashed" /\ crashWhy \in ConnectCrashes) =>
        connTried = ConnectMaxAttempts

\* C5: a successful probe returns the same session and opens no connection;
\* a failed probe closes the stale session before ftp_connect is called, and
\* what refresh_connection then returns is the fresh session, never the
\* stale one.
C5_EnsureAlive ==
    [][/\ (pc = "refresh" /\ pc' # "refresh" /\ Alive(ftp)) =>
              (pc' = ret /\ ftp' = ftp /\ openS' = openS /\ nextSid' = nextSid)
       /\ (pc = "refresh" /\ pc' # "refresh" /\ ~Alive(ftp)) =>
              (pc' = "connect" /\ ftp \notin openS' /\ nextSid' = nextSid)
       /\ (pc = "connect" /\ ret # "none" /\ pc' = ret) =>
              /\ ftp \notin openS'
              /\ ftp' # ftp
              /\ ftp' = nextSid + 1
              /\ ftp' \in openS' /\ ftp' \notin dropped']_vars

C5_Witness ==
    /\ fresh
    /\ ftp > 1
    /\ Alive(ftp)
    /\ openS = {ftp}
    /\ pc = "nav_list"

\* C6: every listing and every transfer attempt is preceded by a liveness
\* check of the session, with no other session command and no operator
\* input in between.
C6_CheckBeforeUse ==
    lastOp.kind \in {"list", "nlst", "retr"} => lastOp.fresh

FailedAttempts == {"transient", "reconnect_reset"}

Placed(f) == {d \in dirs : <<d, f>> \in folderFiles}

\* C7: download_file makes at most max_attempts attempts, none after a
\* successful one, returns success after a successful one and failure
\* exactly when all max_attempts attempts met a transient error; a file
\* fetched successfully, at whichever attempt, is distributed the same way.
C7_FetchAttempts ==
    /\ Len(dlLog) <= DlMaxAttempts
    /\ \A i \in 1..(Len(dlLog) - 1) : dlLog[i] \in FailedAttempts
    /\ (dlFile \in DOMAIN fetchResult /\ fetchResult[dlFile] = "success") =>
           (dlLog # <<>> /\ dlLog[Len(dlLog)] = "ok")
    /\ (dlFile \in DOMAIN fetchResult /\ fetchResult[dlFile] = "failure") <=>
           (/\ variant = Agenda
            /\ Len(dlLog) = DlMaxAttempts
            /\ \A i \in 1..Len(dlLog) : dlLog[i] \in FailedAttempts)
    /\ \A f \in DOMAIN distResult :
           /\ f \in DOMAIN fetchResult /\ fetchResult[f] = "success"
           /\ distResult[f] = "ok" =>
                  /\ Placed(f) = {type_folders[tdoc_type_map[SplitextBase(f)]]}
                  /\ \A d \in Placed(f) : <<d, f>> \in extracted
                  /\ f \notin rootFiles
           /\ distResult[f] = "unmapped" =>
                  /\ Placed(f) = {}
                  /\ f \in rootFiles \ partialFiles

C7_Witness ==
    /\ dlCaller = "zip"
    /\ dlLog = <<"transient", "transient", "ok">>
    /\ dlFile \in DOMAIN distResult
    /\ distResult[dlFile] = "ok"
    /\ dlFile \notin rootFiles

PositionOf(f) == CHOOSE i \in 1..Len(files) : files[i] = f

\* C8 as stated: whichever file's fetch ended in failure, every archive
\* later in the listing is still fetched.
C8_AnyFileFailureIsLocal ==
    pc = "done" =>
        \A f \in DOMAIN fetchResult :
            fetchResult[f] = "failure" =>
                \A i \in 1..Len(files) :
                    (i > PositionOf(f) /\ EndsWith(files[i], ZipExt)) =>
                        files[i] \in DOMAIN fetchResult

\* C8 amended: an archive whose fetch ended in failure is never moved or
\* extracted; its failure leads on to the next file of the listing and leaves
\* the dictionaries, the folders and the placed archives as they were; a run
\* that ends normally after an archive was fetched has fetched every archive
\* of the listing.
C8_ArchiveFailureIsLocal ==
    /\ [](\A f \in DOMAIN fetchResult :
             fetchResult[f] = "failure" =>
                 /\ Placed(f) = {}
                 /\ \A d \in dirs : <<d, f>> \notin extracted
                 /\ f \notin DOMAIN distResult)
    /\ []((pc = "done" /\ \E f \in DOMAIN fetchResult : EndsWith(f, ZipExt)) =>
             \A i \in 1..Len(files) :
                 EndsWith(files[i], ZipExt) => files[i] \in DOMAIN fetchResult)
    /\ [][(/\ dlCaller = "zip"
           /\ dlFile \notin DOMAIN fetchResult
           /\ dlFile \in DOMAIN fetchResult'
           /\ fetchResult'[dlFile] = "failure") =>
              /\ pc' = "loop"
              /\ fileIdx' = fileIdx + 1
              /\ UNCHANGED <<tdoc_type_map, type_folders, dirs, folderFiles,
                             extracted>>]_vars

C8_Witness ==
    /\ pc = "done"
    /\ S1Zip \in DOMAIN fetchResult /\ fetchResult[S1Zip] = "failure"
    /\ S2Zip \in DOMAIN distResult /\ distResult[S2Zip] = "ok"

Archives == {i \in 1..Len(files) : EndsWith(files[i], ZipExt)}

\* C12: when no row holds both header labels the run still ends normally,
\* the mapping is empty, every archive of the listing has been downloaded
\* into the root folder and none has been moved or extracted.
C12_NoHeaderStillDownloads ==
    (builds >= 1 /\ header_row = 0) =>
        /\ pc # "crashed" => tdoc_type_map = EmptyDict
        /\ pc = "done" =>
               /\ \A i \in Archives : files[i] \in rootFiles
               /\ folderFiles = {}
               /\ extracted = {}

\* C13: distributing an archive whose identifier is not in the mapping
\* leaves the file where it was downloaded, complete and not extracted, and
\* creates no folder.
C13_UnmappedLeftInRoot ==
    [][(pc = "distribute" /\ SplitextBase(dlFile) \notin DOMAIN tdoc_type_map) =>
          /\ dlFile \in rootFiles' \ partialFiles'
          /\ UNCHANGED <<rootFiles, partialFiles, folderFiles, extracted,
                         dirs>>]_vars

C13_Witness ==
    /\ header_row > 0
    /\ S1Zip \in DOMAIN distResult /\ distResult[S1Zip] = "ok"
    /\ S2Zip \in DOMAIN distResult /\ distResult[S2Zip] = "unmapped"
    /\ S2Zip \in rootFiles
    /\ Placed(S2Zip) = {}

\* the sheet of end-to-end scenario A
ScenarioA == <<<<TDoc, CategoryLabel(variant)>>, <<S1, CatSec>>, <<S2, CatSec>>>>

\* C14: an archive whose identifier is in the mapping and whose move and
\* extraction meet no filesystem error ends in the folder named by its mapped
\* category, is no longer in the download root and is extracted into that
\* folder; in scenario A both archives end up extracted under 'Sec'.
C14_MappedArchivePlaced ==
    /\ [][(/\ pc = "distribute"
           /\ SplitextBase(dlFile) \in DOMAIN tdoc_type_map
           /\ dlFile \in DOMAIN distResult'
           /\ distResult'[dlFile] = "ok") =>
              LET category == tdoc_type_map[SplitextBase(dlFile)]
              IN  /\ category \in dirs'
                  /\ <<category, dlFile>> \in folderFiles'
                  /\ <<category, dlFile>> \in extracted'
                  /\ \A d \in dirs' : <<d, dlFile>> \in folderFiles' => d = category
                  /\ dlFile \notin rootFiles']_vars
    /\ []((/\ manifest = ScenarioA
           /\ \A f \in {S1Zip, S2Zip} :
                  f \in DOMAIN distResult /\ distResult[f] = "ok") =>
              /\ CatSec \in dirs
              /\ {<<CatSec, S1Zip>>, <<CatSec, S2Zip>>} \subseteq extracted
              /\ rootFiles \cap {S1Zip, S2Zip} = {})

C14_Witness ==
    /\ pc = "done"
    /\ manifest = ScenarioA
    /\ {<<CatSec, S1Zip>>, <<CatSec, S2Zip>>} \subseteq extracted
    /\ rootFiles \cap {S1Zip, S2Zip} = {}

\* C15: a move failure or an extraction failure, a corrupt archive included,
\* never terminates the run.
C15_DistributeFailureIsLocal ==
    \A f \in DOMAIN distResult :
        distResult[f] \in {"move_fail", "extract_oserror", "bad_zip"} =>
            ~(pc = "crashed" /\ crashWhy = "distribute" /\ dlFile = f)

\* C16: no failure after the initial connect terminates the process
\* abnormally.
C16_OnlyInitialConnectIsFatal ==
    (variant = Agenda /\ pc = "crashed") =>
        crashWhy \in {"connect_exhausted", "connect_uncaught"}

\* the archives of the listing before position n
ArchivesBefore(n) == {i \in Archives : i < n}

\* C17: connect, navigation, manifest fetch, index build, then for each
\* archive in listing order its fetch directly followed by its distribution.
C17_OperationOrder ==
    /\ pc \in {"nav_list", "nav_input", "sel_cwd", "nlst"} =>
           (nextSid >= 1 /\ dlCaller = "none" /\ builds = 0)
    /\ dlCaller # "none" =>
           (remote_dir = current_dir /\ excel_file # None
            /\ files # <<>> /\ nextSid >= 1)
    /\ (dlCaller = "excel" /\ pc \in {"refresh", "connect", "dl_retr"}) =>
           builds = 0
    /\ builds <= 1
    /\ builds = 1 =>
           (excel_file \in DOMAIN fetchResult
            /\ fetchResult[excel_file] = "success")
    /\ dlCaller = "zip" => builds = 1
    /\ (dlCaller = "zip" /\ pc \in {"refresh", "connect", "dl_retr", "distribute"}) =>
           (fileIdx \in Archives /\ dlFile = files[fileIdx])
    /\ \A i \in Archives :
           /\ files[i] \in DOMAIN fetchResult =>
                  (/\ builds = 1
                   /\ i <= fileIdx
                   /\ i = fileIdx => pc \in {"distribute", "crashed"}
                   /\ \A j \in ArchivesBefore(i) : files[j] \in DOMAIN fetchResult)
           /\ files[i] \in DOMAIN distResult =>
                  (/\ files[i] \in DOMAIN fetchResult
                   /\ fetchResult[files[i]] = "success"
                   /\ i <= fileIdx
                   /\ i = fileIdx => pc = "crashed")
           /\ (i < fileIdx /\ files[i] \in DOMAIN fetchResult
               /\ fetchResult[files[i]] = "success") =>
                  files[i] \in DOMAIN distResult

C17_Witness ==
    /\ pc = "done"
    /\ builds = 1
    /\ \A i \in Archives : files[i] \in DOMAIN distResult
    /\ Cardinality(Archives) = 2

\* an absolute path without empty components: "/" or "/a/b"
WellFormedPath(p) ==
    /\ p # <<>>
    /\ p[1] = "/"
    /\ \A k \in 1..(Len(p) - 1) : ~(p[k] = "/" /\ p[k + 1] = "/")
    /\ Len(p) > 1 => p[Len(p)] # "/"

\* the parent of a well-formed path; the root is its own parent
ParentOf(p) ==
    IF LastPos(p, "/") <= 1 THEN Root ELSE SubSeq(p, 1, LastPos(p, "/") - 1)

\* the step in which the operator's input is read and handled
NavStepTaken == pc = "nav_input" /\ navSteps' = navSteps + 1

\* C18: "go up" leads to the parent of the current path, the root being its
\* own parent; the current path is always a well-formed absolute path.
C18_GoUpStaysWellFormed ==
    /\ [](WellFormedPath(current_dir))
    /\ [][(NavStepTaken /\ lastChoice'.input = "-1") =>
              /\ current_dir' = ParentOf(current_dir)
              /\ lastChoice'.sent /\ lastChoice'.cwd = ParentOf(current_dir)
              /\ pc' # "crashed" => pc' \in {"refresh", "nav_list"}]_vars

C18_Witness ==
    /\ lastChoice.input = "-1"
    /\ directories = ListDirectories(DirM)
    /\ current_dir = Root
    /\ pc \in {"refresh", "nav_list"}

\* the decimal numeral of a small number
Numeral(n) == IF n = 1 THEN "1" ELSE IF n = 2 THEN "2" ELSE "0"

\* the inputs the navigator accepts for this listing
AcceptedInputs(listing) == {"0", "-1"} \cup {Numeral(n) : n \in 1..Len(listing)}

\* C19: an input other than "0", "-1" or the number of a listed child leaves
\* the current path as it was, sends no directory change and lets the loop
\* go on.
C19_InvalidInputRejected ==
    [][(NavStepTaken /\ lastChoice'.input \notin AcceptedInputs(directories)) =>
          /\ current_dir' = current_dir
          /\ ~lastChoice'.sent
          /\ sessCwd' = sessCwd
          /\ pc' \in {"refresh", "nav_list"}]_vars

\* C20: the listing presented for the current path is the listing of the
\* child directories at that path, and the session that was listed has the
\* current path as its working directory.
C20_ListingOfCurrentPath ==
    pc = "nav_input" =>
        /\ directories = ListDirectories(current_dir)
        /\ Alive(ftp) => sessCwd[ftp] = current_dir

\* C21: the file names listed are those of the directory the operator
\* selected, and every retrieval is sent to a session whose working
\* directory is that directory, a session obtained by a reconnection too.
C21_SelectedDirectoryInUse ==
    /\ (lastOp.kind \in {"nlst", "retr"}
        /\ ~(pc = "crashed" /\ crashWhy = "nlst")) =>
           files = Entries(remote_dir)
    /\ (pc = "dl_retr" /\ Alive(ftp)) => sessCwd[ftp] = remote_dir

\* C22: every change of directory and the final close are directly preceded
\* by a liveness check of the session.
C22_CheckBeforeCwdAndQuit ==
    (variant = Agenda /\ lastOp.kind \in {"cwd", "quit"}) => lastOp.fresh

\* download_file returns: the outcome of the current file is recorded
FetchReturns == dlFile \notin DOMAIN fetchResult /\ dlFile \in DOMAIN fetchResult'

\* C23: the session handle download_file returns, with either outcome, is
\* open on this side and has not been dropped by the host.
C23_ReturnedHandleIsLive ==
    [][(variant = Agenda /\ FetchReturns) =>
          (ftp' \in openS' /\ ftp' \notin dropped')]_vars

\* C24: at most one session to the host is open at any point of a run.
C24_AtMostOneSession == peakOpen <= 1 /\ Cardinality(openS) <= 1

\* C25: when the run has ended, normally or not, no session is open.
C25_ClosedAtEnd == pc \in {"done", "crashed"} => openS = {}

\* C26: a category folder exists only once an archive has been distributed
\* into it.
C26_FoldersCreatedLazily ==
    \A d \in dirs : \E f \in {S1Zip, S2Zip} : <<d, f>> \in folderFiles

OtherVariant(v) == IF v = Agenda THEN Plain ELSE Agenda

\* the same sheet under the other script's category column label
Relabel(rows, from, to) ==
    [i \in 1..Len(rows) |->
        [j \in 1..Len(rows[i]) |->
            IF rows[i][j] = CategoryLabel(from) THEN CategoryLabel(to)
            ELSE rows[i][j]]]

\* the run met no network or filesystem failure
FailureFree == ~faults /\ unmakable = {}

\* C27: a run without failures ends with the files, folders, placements and
\* extractions that the other script leaves on the same listing and the same
\* sheet under its own column label.
C27_SameOutcomeAsOtherScript ==
    (pc = "done" /\ FailureFree) =>
        LET other == RunOutcome(OtherVariant(variant),
                                Relabel(manifest, variant, OtherVariant(variant)),
                                files)
        IN  /\ rootFiles = other.root
            /\ dirs = other.dirs
            /\ folderFiles = other.placed
            /\ extracted = other.placed

\* the dictionaries after the first n rows of the sheet have been processed
IndexAfter(n) ==
    IndexRows(variant, SubSeq(manifest, 1, n), FirstDataRow,
              IndexOf(manifest[header_row], TDoc),
              IndexOf(manifest[header_row], CategoryLabel(variant)),
              unmakable,
              [map |-> EmptyDict, folders |-> EmptyDict, dirs |-> {},
               crashed |-> FALSE])

\* every category the mapping names has an entry in the folder dictionary
FoldersCoverMap(map, folders) ==
    \A id \in DOMAIN map : map[id] \in DOMAIN folders

\* C28: after every row, and so after the build, every category that is a
\* value of tdoc_type_map is a key of type_folders, also when a folder could
\* not be made; the lookup of a mapped archive's folder meets no missing key.
C28_EveryCategoryHasFolder ==
    builds >= 1 =>
        /\ FoldersCoverMap(tdoc_type_map, type_folders)
        /\ header_row > 0 =>
               \A n \in 0..Len(manifest) :
                   FoldersCoverMap(IndexAfter(n).map, IndexAfter(n).folders)
        /\ \A f \in {S1Zip, S2Zip} : FolderFor(f).found # "key_error"

C28_Witness ==
    /\ builds >= 1
    /\ variant = Agenda
    /\ unmakable # {}
    /\ header_row > 0
    /\ \E i \in RowsAfterHeader : CategoryOfRow(i) \in unmakable \ dirs
    /\ tdoc_type_map # EmptyDict

\* C29: no retry loop runs forever (a connect call makes at most
\* ConnectMaxAttempts attempts, a fetch at most DlMaxAttempts retrieve
\* attempts), and once the operator's directory has been selected the run
\* always reaches its end, normally or by an uncaught exception.
C29_PipelineTerminates ==
    /\ [](connTried <= ConnectMaxAttempts /\ Len(dlLog) <= DlMaxAttempts)
    /\ (pc = "sel_cwd") ~> (pc \in {"done", "crashed"})

----------------------------------------------------------------------------
(* Claims about the document summarizer, checked under SpecDoc *)

\* the document's text was read and is not empty
ReadOk(name) ==
    LET ps == EntryOf(name).body.paragraphs
    IN  /\ EntryOf(name).body.opens
        /\ Len(ps) > 1 \/ \E i \in 1..Len(ps) : ps[i] # <<>>

\* the positions of docx_files, among the first n, whose document was read
\* and summarized without an exception
Summarized(n) ==
    {i \in 1..n : ReadOk(docx_files[i]) /\ ~EntryOf(docx_files[i]).reply.raises}

\* the number of documents the loop has finished with
DocumentsDone ==
    IF doc_pc \in {"loop", "summary"} THEN doc_index - 1 ELSE Len(docx_files)

\* C30: a document that cannot be read, is empty or cannot be summarized
\* does not stop the loop: the loop ends only after the last document and
\* never by an exception; the summaries are, in the order of processing,
\* exactly those of the documents read and summarized successfully, one each.
C30_OneSummaryPerGoodDocument ==
    /\ doc_pc = "raised" =>
           (doc_index = 0 \/ doc_index = Len(docx_files) + 1)
    /\ doc_pc \notin {"off", "start", "loop", "summary", "raised"} =>
           (docx_files = <<>> \/ doc_index = Len(docx_files) + 1)
    /\ doc_pc # "off" =>
           /\ Len(summaries) = Cardinality(Summarized(DocumentsDone))
           /\ \A k \in 1..Len(summaries) :
                  \E i \in Summarized(DocumentsDone) :
                      /\ summaries[k].file_name = docx_files[i]
                      /\ Cardinality({j \in Summarized(DocumentsDone) :
                                          j < i}) = k - 1

C30_Witness ==
    /\ doc_pc = "analysis"
    /\ Len(docx_files) = 3
    /\ ~EntryOf(docx_files[1]).body.opens
    /\ ReadOk(docx_files[2]) /\ EntryOf(docx_files[2]).reply.raises
    /\ Len(summaries) = 1
    /\ summaries[1].file_name = docx_files[3]

\* process_documents has ended: by a return or by an exception
Ended == doc_pc \in {"returned", "finished", "raised"}

\* the report file exists and holds the whole page
ReportWritten == report # <<>> /\ report[1].complete

\* the names of the steps run after the loop, in order
StepsRun == [i \in 1..Len(doc_trace) |-> doc_trace[i].step]

AllSteps == <<"backup", "cross", "discussion", "report">>

\* C31 as stated: at the end the report is written exactly when there is a
\* summary; without a summary none of the steps after the loop has run; with
\* one, all of them have run in order, whatever the analyses returned.
C31_ReportIffSummary ==
    Ended =>
        /\ ReportWritten <=> summaries # <<>>
        /\ summaries = <<>> => doc_trace = <<>>
        /\ summaries # <<>> => StepsRun = AllSteps

\* C31, amended: as above, but the report is written exactly when there is
\* a summary and neither open() nor write() of the report step raises; when
\* one of them raises, process_documents ends by that exception. Before the
\* end no complete report exists.
C31_ReportIffSummaryAndWriteOk ==
    /\ ~Ended => ~ReportWritten
    /\ Ended =>
           /\ summaries = <<>> =>
                  doc_trace = <<>> /\ report = <<>> /\ doc_pc # "finished"
           /\ summaries # <<>> =>
                  /\ StepsRun = AllSteps
                  /\ ReportWritten <=> doc_trace[4].ok
                  /\ doc_pc = (IF doc_trace[4].ok THEN "finished" ELSE "raised")
                  /\ ReportWritten => report[1].cards = NamesOf(summaries)

C31_Witness ==
    /\ doc_pc = "finished"
    /\ ReportWritten
    /\ cross_document_analysis = PyNone
    /\ discussion_points = PyStr(<<>>)
    /\ ~doc_trace[1].ok
    /\ Len(summaries) = 2

====
